---- MODULE Spec2Model ----
(***************************************************************************)
(* Model of c_bin/benchmark.c and c_bin/query_block.c: the libirmin-based  *)
(* BlockSci benchmark queries, their lenient record decoder and the two    *)
(* main programs.                                                          *)
(*                                                                         *)
(* C strings are sequences of one-character strings; a read past the end   *)
(* of a string yields NUL.  A pointer that may be NULL is an option:       *)
(* <<>> is NULL and <<x>> is a pointer to x.                               *)
(***************************************************************************)
EXTENDS Integers, Sequences, FiniteSets, TLC

VARIABLES
    store,        \* content of the main branch: sequence of [path, data] leaves
    nullOnAbsent, \* whether irmin_list gives NULL (TRUE) or an empty array for a path with no children
    listOrder,    \* which arrangement of the children irmin_list returns (0: as stored)
    prog,         \* which program runs: "benchmark", "query_block", "fn" (a single function
                  \* call) or "order" (the queries called under two listing orders)
    pc,           \* position in main
    i,            \* loop index of main's benchmark loop
    acq,          \* native handles acquired so far, per kind
    rel,          \* native handles released so far, per kind
    out,          \* lines written to stdout
    err,          \* lines written to stderr
    ran,          \* names of the queries executed so far
    exitCode,     \* -1 while running, then main's return value
    fn_json,      \* argument of a single json_get_int64 call
    fn_key,       \* argument of a single json_get_int64 call
    fn_ret        \* <<>> or <<value returned by the single function call>>; under "order"
                  \* the results of the calls made so far

vars == <<store, nullOnAbsent, listOrder, prog, pc, i, acq, rel, out, err, ran, exitCode,
          fn_json, fn_key, fn_ret>>

(***************************************************************************)
(* C strings                                                               *)
(***************************************************************************)
NUL == "NUL"

CharAt(s, p) == IF p >= 1 /\ p <= Len(s) THEN s[p] ELSE NUL

Digits == <<"0", "1", "2", "3", "4", "5", "6", "7", "8", "9">>

IsDigit(c) == \E d \in 1..10 : Digits[d] = c

DigitVal(c) == (CHOOSE d \in 1..10 : Digits[d] = c) - 1

\* isspace() in the C locale
IsSpace(c) == c \in {" ", "\t", "\n", "\r", "\f"}

\* strstr: index of the first occurrence of needle in hay, 0 for NULL
strstr(hay, needle) ==
    LET hits == {p \in 1..(Len(hay) - Len(needle) + 1) :
                    SubSeq(hay, p, p + Len(needle) - 1) = needle}
    IN IF hits = {} THEN 0 ELSE CHOOSE p \in hits : \A q \in hits : p <= q

\* strrchr: index of the last occurrence of character c in s, 0 for NULL
strrchr(s, c) ==
    LET hits == {p \in 1..Len(s) : s[p] = c}
    IN IF hits = {} THEN 0 ELSE CHOOSE p \in hits : \A q \in hits : p >= q

(***************************************************************************)
(* Wide integers.  A 64-bit magnitude is kept as hi * 2^16 + lo so that    *)
(* the cast to a 32-bit int can be computed on values above 2^31.          *)
(***************************************************************************)
Base16 == 65536

Half16 == 32768

WideZero == [hi |-> 0, lo |-> 0]

\* magnitude * 10 + d
WideStep(w, d) ==
    LET l == w.lo * 10 + d
    IN [hi |-> w.hi * 10 + (l \div Base16), lo |-> l % Base16]

\* the int64 value of sign and magnitude, for magnitudes below 2^31
WideValue(neg, w) ==
    LET m == w.hi * Base16 + w.lo
    IN IF neg THEN 0 - m ELSE m

\* (int)v for the int64 v of sign neg and magnitude w: the low 32 bits, signed
CastInt(neg, w) ==
    LET h == w.hi % Base16
        u == IF h >= Half16 THEN (h - Base16) * Base16 + w.lo ELSE h * Base16 + w.lo
    IN IF ~neg THEN u
       ELSE IF h = Half16 /\ w.lo = 0 THEN u
       ELSE 0 - u

RECURSIVE SkipSpace(_, _)
SkipSpace(s, p) == IF IsSpace(CharAt(s, p)) THEN SkipSpace(s, p + 1) ELSE p

RECURSIVE ScanDigits(_, _, _)
ScanDigits(s, p, w) ==
    IF IsDigit(CharAt(s, p)) THEN ScanDigits(s, p + 1, WideStep(w, DigitVal(CharAt(s, p))))
    ELSE w

\* The scan shared by strtoll, strtol and atoi in base 10: white space, an
\* optional sign, then digits up to the first character that is not one.
ScanNumber(s, p) ==
    LET q == SkipSpace(s, p)
        c == CharAt(s, q)
        r == IF c \in {"-", "+"} THEN q + 1 ELSE q
    IN [neg |-> c = "-", mag |-> ScanDigits(s, r, WideZero)]

\* strtoll(pos, NULL, 10).  The numbers in the texts of the model lie below
\* 2^31 in magnitude, far from LLONG_MIN and LLONG_MAX, where strtoll clamps.
strtoll(s, p) ==
    LET n == ScanNumber(s, p) IN WideValue(n.neg, n.mag)

\* atoi(pos): (int)strtol(pos, NULL, 10)
atoi(s, p) ==
    LET n == ScanNumber(s, p) IN CastInt(n.neg, n.mag)

\* snprintf(buf, size, "%d", n) for n >= 0; a negative n prints its sign first
RECURSIVE FormatNat(_)
FormatNat(n) ==
    IF n < 10 THEN <<Digits[n + 1]>>
    ELSE FormatNat(n \div 10) \o <<Digits[(n % 10) + 1]>>

FormatInt(n) == IF n < 0 THEN <<"-">> \o FormatNat(0 - n) ELSE FormatNat(n)

(***************************************************************************)
(* json_get_int64, json_get_int                                            *)
(***************************************************************************)
\* snprintf(search, sizeof(search), "\"%s\":", key)
SearchFor(key) == <<"\"">> \o key \o <<"\"", ":">>

RECURSIVE SkipBlank(_, _)
SkipBlank(s, p) == IF CharAt(s, p) = " " THEN SkipBlank(s, p + 1) ELSE p

json_get_int64_lastmatch(json, key) ==
    LET search == SearchFor(key)
        hits == {p \in 1..(Len(json) - Len(search) + 1) :
                    SubSeq(json, p, p + Len(search) - 1) = search}
    IN IF hits = {} THEN 0
       ELSE strtoll(json, SkipBlank(json, (CHOOSE p \in hits : \A q \in hits : p >= q) + Len(search)))

json_get_int64(json, key) ==
    LET search == SearchFor(key)
        pos == strstr(json, search)
    IN IF pos = 0 THEN 0
       ELSE strtoll(json, SkipBlank(json, pos + Len(search)))

json_get_int(json, key) ==
    LET search == SearchFor(key)
        pos == strstr(json, search)
    IN IF pos = 0 THEN 0
       ELSE atoi(json, SkipBlank(json, pos + Len(search)))

(***************************************************************************)
(* The store client (libirmin), as benchmark.c uses it                     *)
(***************************************************************************)
RECURSIVE SplitPath(_, _, _)
SplitPath(s, p, cur) ==
    IF p > Len(s) THEN (IF cur = <<>> THEN <<>> ELSE <<cur>>)
    ELSE IF s[p] = "/" THEN (IF cur = <<>> THEN <<>> ELSE <<cur>>) \o SplitPath(s, p + 1, <<>>)
    ELSE SplitPath(s, p + 1, Append(cur, s[p]))

\* irmin_path_of_string: the steps between the slashes
irmin_path_of_string(s) == <<SplitPath(s, 1, <<>>)>>

RECURSIVE JoinPath(_)
JoinPath(path) ==
    IF path = <<>> THEN <<>>
    ELSE IF Len(path) = 1 THEN path[1]
    ELSE path[1] \o <<"/">> \o JoinPath(Tail(path))

\* irmin_value_to_string on a path: the steps joined with slashes
irmin_value_to_string(path) == <<JoinPath(path)>>

\* irmin_find: the contents at path, NULL when the path holds none
irmin_find(path) ==
    LET hits == {k \in 1..Len(store) : store[k].path = path}
    IN IF hits = {} THEN <<>> ELSE <<store[CHOOSE k \in hits : TRUE].data>>

IsUnder(path, p) == Len(p) > Len(path) /\ SubSeq(p, 1, Len(path)) = path

RECURSIVE Children(_, _, _)
Children(path, k, acc) ==
    IF k > Len(store) THEN acc
    ELSE LET p == store[k].path
             child == SubSeq(p, 1, Len(path) + 1)
         IN IF IsUnder(path, p) /\ ~(\E j \in 1..Len(acc) : acc[j] = child)
            THEN Children(path, k + 1, Append(acc, child))
            ELSE Children(path, k + 1, acc)

\* arr without its element at position j
RemoveAt(arr, j) == SubSeq(arr, 1, j - 1) \o SubSeq(arr, j + 1, Len(arr))

\* The arrangement number k of arr: its first element is the one at
\* position k % Len(arr), the rest is arranged by k \div Len(arr); 0 leaves
\* arr as it is, and the numbers below n! give every order of n elements.
RECURSIVE ArrangeBy(_, _)
ArrangeBy(arr, k) ==
    IF arr = <<>> THEN <<>>
    ELSE LET j == (k % Len(arr)) + 1
         IN <<arr[j]>> \o ArrangeBy(RemoveAt(arr, j), k \div Len(arr))

\* irmin_list: the child paths of path, in the order the store chooses
irmin_list(path) ==
    LET arr == ArrangeBy(Children(path, 1, <<>>), listOrder)
    IN IF arr = <<>> /\ nullOnAbsent THEN <<>> ELSE <<arr>>

make_path(path_str) == irmin_path_of_string(path_str)

get_content(path_str) ==
    LET path == make_path(path_str)
    IN IF path = <<>> THEN <<>> ELSE irmin_find(path[1])

list_path(path_str) ==
    LET path == make_path(path_str)
    IN IF path = <<>> THEN <<>> ELSE irmin_list(path[1])

path_to_string(path) == irmin_value_to_string(path)

(***************************************************************************)
(* String literals of benchmark.c                                          *)
(***************************************************************************)
s_block == <<"b", "l", "o", "c", "k">>

s_tx == <<"t", "x">>

s_address == <<"a", "d", "d", "r", "e", "s", "s">>

s_output == <<"o", "u", "t", "p", "u", "t">>

s_index == <<"i", "n", "d", "e", "x">>

s_block_txs == s_index \o <<"/", "b", "l", "o", "c", "k", "_", "t", "x", "s">>

s_tx_inputs == s_index \o <<"/", "t", "x", "_", "i", "n", "p", "u", "t", "s">>

s_tx_outputs == s_index \o <<"/", "t", "x", "_", "o", "u", "t", "p", "u", "t", "s">>

s_spent_by == s_index \o <<"/", "s", "p", "e", "n", "t", "_", "b", "y">>

k_tx_id == <<"t", "x", "_", "i", "d">>

k_vout == <<"v", "o", "u", "t">>

k_fee == <<"f", "e", "e">>

k_locktime == <<"l", "o", "c", "k", "t", "i", "m", "e">>

k_version == <<"v", "e", "r", "s", "i", "o", "n">>

k_value == <<"v", "a", "l", "u", "e">>

\* snprintf(path, sizeof(path), "<dir>/%d", n)
PathOf(dir, n) == dir \o <<"/">> \o FormatInt(n)

(***************************************************************************)
(* find_last_block_height                                                  *)
(***************************************************************************)
find_last_block_height_from0 ==
    LET blocks == list_path(s_block)
        RECURSIVE loop(_, _)
        loop(k, max_height) ==
            IF k > Len(blocks[1]) THEN max_height
            ELSE LET pstr == path_to_string(blocks[1][k])
                 IN IF pstr = <<>> THEN loop(k + 1, max_height)
                    ELSE LET slash == strrchr(pstr[1], "/")
                         IN IF slash = 0 THEN loop(k + 1, max_height)
                            ELSE LET height == atoi(pstr[1], slash + 1)
                                 IN loop(k + 1, IF height > max_height THEN height ELSE max_height)
    IN IF blocks = <<>> THEN -1 ELSE loop(1, 0)

\* find_last_block_height keeping the height of the child listed last
find_last_block_height_last ==
    LET blocks == list_path(s_block)
        RECURSIVE loop(_, _)
        loop(k, max_height) ==
            IF k > Len(blocks[1]) THEN max_height
            ELSE LET pstr == path_to_string(blocks[1][k])
                 IN IF pstr = <<>> THEN loop(k + 1, max_height)
                    ELSE LET slash == strrchr(pstr[1], "/")
                         IN IF slash = 0 THEN loop(k + 1, max_height)
                            ELSE LET height == atoi(pstr[1], slash + 1)
                                 IN loop(k + 1, height)
    IN IF blocks = <<>> THEN -1 ELSE loop(1, -1)

find_last_block_height ==
    LET blocks == list_path(s_block)
        RECURSIVE loop(_, _)
        loop(k, max_height) ==
            IF k > Len(blocks[1]) THEN max_height
            ELSE LET pstr == path_to_string(blocks[1][k])
                 IN IF pstr = <<>> THEN loop(k + 1, max_height)
                    ELSE LET slash == strrchr(pstr[1], "/")
                         IN IF slash = 0 THEN loop(k + 1, max_height)
                            ELSE LET height == atoi(pstr[1], slash + 1)
                                 IN loop(k + 1, IF height > max_height THEN height ELSE max_height)
    IN IF blocks = <<>> THEN -1 ELSE loop(1, -1)

(***************************************************************************)
(* Benchmark queries                                                       *)
(***************************************************************************)
query_block_count ==
    LET blocks == list_path(s_block)
    IN IF blocks = <<>> THEN 0 ELSE Len(blocks[1])

query_tx_count ==
    LET txs == list_path(s_tx)
    IN IF txs = <<>> THEN 0 ELSE Len(txs[1])

query_address_count ==
    LET addrs == list_path(s_address)
    IN IF addrs = <<>> THEN 0 ELSE Len(addrs[1])

\* The start of every loop body over a listing: path_to_string of the
\* element, then get_content of that string; NULL when either is NULL.
content_at(path) ==
    LET path_str == path_to_string(path)
    IN IF path_str = <<>> THEN <<>> ELSE get_content(path_str[1])

\* query_input_count with the traversal given up at the first block-tx ref
\* that holds no content
query_input_count_stops ==
    LET last_height == find_last_block_height
        RECURSIVE txloop(_, _, _)
        txloop(tx_refs, k, count) ==
            IF k > Len(tx_refs) THEN [count |-> count, stop |-> FALSE]
            ELSE LET tx_ref == content_at(tx_refs[k])
                 IN IF tx_ref = <<>> THEN [count |-> count, stop |-> TRUE]
                    ELSE LET tx_id == json_get_int(tx_ref[1], k_tx_id)
                             entries == list_path(PathOf(s_tx_inputs, tx_id))
                         IN IF entries = <<>> THEN txloop(tx_refs, k + 1, count)
                            ELSE txloop(tx_refs, k + 1, count + Len(entries[1]))
        RECURSIVE loop(_, _)
        loop(height, count) ==
            IF height > last_height THEN count
            ELSE LET tx_refs == list_path(PathOf(s_block_txs, height))
                 IN IF tx_refs = <<>> THEN loop(height + 1, count)
                    ELSE LET r == txloop(tx_refs[1], 1, count)
                         IN IF r.stop THEN r.count ELSE loop(height + 1, r.count)
    IN IF last_height < 0 THEN 0 ELSE loop(0, 0)

query_input_count ==
    LET last_height == find_last_block_height
        RECURSIVE txloop(_, _, _)
        txloop(tx_refs, k, count) ==
            IF k > Len(tx_refs) THEN count
            ELSE LET tx_ref == content_at(tx_refs[k])
                 IN IF tx_ref = <<>> THEN txloop(tx_refs, k + 1, count)
                    ELSE LET tx_id == json_get_int(tx_ref[1], k_tx_id)
                             entries == list_path(PathOf(s_tx_inputs, tx_id))
                         IN IF entries = <<>> THEN txloop(tx_refs, k + 1, count)
                            ELSE txloop(tx_refs, k + 1, count + Len(entries[1]))
        RECURSIVE loop(_, _)
        loop(height, count) ==
            IF height > last_height THEN count
            ELSE LET tx_refs == list_path(PathOf(s_block_txs, height))
                 IN IF tx_refs = <<>> THEN loop(height + 1, count)
                    ELSE loop(height + 1, txloop(tx_refs[1], 1, count))
    IN IF last_height < 0 THEN 0 ELSE loop(0, 0)

query_output_count ==
    LET last_height == find_last_block_height
        RECURSIVE txloop(_, _, _)
        txloop(tx_refs, k, count) ==
            IF k > Len(tx_refs) THEN count
            ELSE LET tx_ref == content_at(tx_refs[k])
                 IN IF tx_ref = <<>> THEN txloop(tx_refs, k + 1, count)
                    ELSE LET tx_id == json_get_int(tx_ref[1], k_tx_id)
                             entries == list_path(PathOf(s_tx_outputs, tx_id))
                         IN IF entries = <<>> THEN txloop(tx_refs, k + 1, count)
                            ELSE txloop(tx_refs, k + 1, count + Len(entries[1]))
        RECURSIVE loop(_, _)
        loop(height, count) ==
            IF height > last_height THEN count
            ELSE LET tx_refs == list_path(PathOf(s_block_txs, height))
                 IN IF tx_refs = <<>> THEN loop(height + 1, count)
                    ELSE loop(height + 1, txloop(tx_refs[1], 1, count))
    IN IF last_height < 0 THEN 0 ELSE loop(0, 0)

query_tx_locktime_gt_0 ==
    LET txs == list_path(s_tx)
        RECURSIVE loop(_, _)
        loop(k, count) ==
            IF k > Len(txs[1]) THEN count
            ELSE LET tx_json == content_at(txs[1][k])
                 IN IF tx_json = <<>> THEN loop(k + 1, count)
                    ELSE loop(k + 1, IF json_get_int64(tx_json[1], k_locktime) > 0 THEN count + 1 ELSE count)
    IN IF txs = <<>> THEN 0 ELSE loop(1, 0)

query_tx_version_gt_1 ==
    LET txs == list_path(s_tx)
        RECURSIVE loop(_, _)
        loop(k, count) ==
            IF k > Len(txs[1]) THEN count
            ELSE LET tx_json == content_at(txs[1][k])
                 IN IF tx_json = <<>> THEN loop(k + 1, count)
                    ELSE loop(k + 1, IF json_get_int(tx_json[1], k_version) > 1 THEN count + 1 ELSE count)
    IN IF txs = <<>> THEN 0 ELSE loop(1, 0)

query_max_output_value ==
    LET last_height == find_last_block_height
        RECURSIVE outloop(_, _, _)
        outloop(outputs, j, max_val) ==
            IF j > Len(outputs) THEN max_val
            ELSE LET out_ref == content_at(outputs[j])
                 IN IF out_ref = <<>> THEN outloop(outputs, j + 1, max_val)
                    ELSE LET out_tx_id == json_get_int(out_ref[1], k_tx_id)
                             out_vout == json_get_int(out_ref[1], k_vout)
                             output_json == get_content(PathOf(PathOf(s_output, out_tx_id), out_vout))
                         IN IF output_json = <<>> THEN outloop(outputs, j + 1, max_val)
                            ELSE LET value == json_get_int64(output_json[1], k_value)
                                 IN outloop(outputs, j + 1, IF value > max_val THEN value ELSE max_val)
        RECURSIVE txloop(_, _, _)
        txloop(tx_refs, k, max_val) ==
            IF k > Len(tx_refs) THEN max_val
            ELSE LET tx_ref == content_at(tx_refs[k])
                 IN IF tx_ref = <<>> THEN txloop(tx_refs, k + 1, max_val)
                    ELSE LET tx_id == json_get_int(tx_ref[1], k_tx_id)
                             outputs == list_path(PathOf(s_tx_outputs, tx_id))
                         IN IF outputs = <<>> THEN txloop(tx_refs, k + 1, max_val)
                            ELSE txloop(tx_refs, k + 1, outloop(outputs[1], 1, max_val))
        RECURSIVE loop(_, _)
        loop(height, max_val) ==
            IF height > last_height THEN max_val
            ELSE LET tx_refs == list_path(PathOf(s_block_txs, height))
                 IN IF tx_refs = <<>> THEN loop(height + 1, max_val)
                    ELSE loop(height + 1, txloop(tx_refs[1], 1, max_val))
    IN IF last_height < 0 THEN 0 ELSE loop(0, 0)

query_calculate_fee ==
    LET txs == list_path(s_tx)
        RECURSIVE loop(_, _)
        loop(k, max_fee) ==
            IF k > Len(txs[1]) THEN max_fee
            ELSE LET tx_json == content_at(txs[1][k])
                 IN IF tx_json = <<>> THEN loop(k + 1, max_fee)
                    ELSE LET fee == json_get_int64(tx_json[1], k_fee)
                         IN loop(k + 1, IF fee > max_fee THEN fee ELSE max_fee)
    IN IF txs = <<>> THEN 0 ELSE loop(1, 0)

query_total_output_value ==
    LET last_height == find_last_block_height
        RECURSIVE outloop(_, _, _)
        outloop(outputs, j, total) ==
            IF j > Len(outputs) THEN total
            ELSE LET out_ref == content_at(outputs[j])
                 IN IF out_ref = <<>> THEN outloop(outputs, j + 1, total)
                    ELSE LET out_tx_id == json_get_int(out_ref[1], k_tx_id)
                             out_vout == json_get_int(out_ref[1], k_vout)
                             output_json == get_content(PathOf(PathOf(s_output, out_tx_id), out_vout))
                         IN IF output_json = <<>> THEN outloop(outputs, j + 1, total)
                            ELSE LET value == json_get_int64(output_json[1], k_value)
                                 IN outloop(outputs, j + 1, total + value)
        RECURSIVE txloop(_, _, _)
        txloop(tx_refs, k, total) ==
            IF k > Len(tx_refs) THEN total
            ELSE LET tx_ref == content_at(tx_refs[k])
                 IN IF tx_ref = <<>> THEN txloop(tx_refs, k + 1, total)
                    ELSE LET tx_id == json_get_int(tx_ref[1], k_tx_id)
                             outputs == list_path(PathOf(s_tx_outputs, tx_id))
                         IN IF outputs = <<>> THEN txloop(tx_refs, k + 1, total)
                            ELSE txloop(tx_refs, k + 1, outloop(outputs[1], 1, total))
        RECURSIVE loop(_, _)
        loop(height, total) ==
            IF height > last_height THEN total
            ELSE LET tx_refs == list_path(PathOf(s_block_txs, height))
                 IN IF tx_refs = <<>> THEN loop(height + 1, total)
                    ELSE loop(height + 1, txloop(tx_refs[1], 1, total))
    IN IF last_height < 0 THEN 0 ELSE loop(0, 0)

query_total_fees ==
    LET txs == list_path(s_tx)
        RECURSIVE loop(_, _)
        loop(k, total) ==
            IF k > Len(txs[1]) THEN total
            ELSE LET tx_json == content_at(txs[1][k])
                 IN IF tx_json = <<>> THEN loop(k + 1, total)
                    ELSE loop(k + 1, total + json_get_int64(tx_json[1], k_fee))
    IN IF txs = <<>> THEN 0 ELSE loop(1, 0)

query_avg_tx_per_block_divfirst ==
    LET block_count == query_block_count
    IN IF block_count = 0 THEN 0
       ELSE (query_tx_count \div block_count) * 1000

query_avg_tx_per_block ==
    LET block_count == query_block_count
    IN IF block_count = 0 THEN 0
       ELSE (query_tx_count * 1000) \div block_count

query_max_tx_per_block_exclusive ==
    LET last_height == find_last_block_height
        RECURSIVE loop(_, _)
        loop(height, max_tx) ==
            IF height >= last_height THEN max_tx
            ELSE LET tx_refs == list_path(PathOf(s_block_txs, height))
                 IN IF tx_refs = <<>> THEN loop(height + 1, max_tx)
                    ELSE loop(height + 1,
                              IF Len(tx_refs[1]) > max_tx THEN Len(tx_refs[1]) ELSE max_tx)
    IN IF last_height < 0 THEN 0 ELSE loop(0, 0)

query_max_tx_per_block ==
    LET last_height == find_last_block_height
        RECURSIVE loop(_, _)
        loop(height, max_tx) ==
            IF height > last_height THEN max_tx
            ELSE LET tx_refs == list_path(PathOf(s_block_txs, height))
                 IN IF tx_refs = <<>> THEN loop(height + 1, max_tx)
                    ELSE loop(height + 1,
                              IF Len(tx_refs[1]) > max_tx THEN Len(tx_refs[1]) ELSE max_tx)
    IN IF last_height < 0 THEN 0 ELSE loop(0, 0)

query_spent_outputs ==
    LET spent == list_path(s_spent_by)
        RECURSIVE loop(_, _)
        loop(k, count) ==
            IF k > Len(spent[1]) THEN count
            ELSE LET tx_path_str == path_to_string(spent[1][k])
                 IN IF tx_path_str = <<>> THEN loop(k + 1, count)
                    ELSE LET vouts == list_path(tx_path_str[1])
                         IN IF vouts = <<>> THEN loop(k + 1, count)
                            ELSE loop(k + 1, count + Len(vouts[1]))
    IN IF spent = <<>> THEN 0 ELSE loop(1, 0)

query_unspent_outputs_clamped ==
    LET total_outputs == query_output_count
        spent == query_spent_outputs
    IN IF total_outputs < spent THEN 0 ELSE total_outputs - spent

query_unspent_outputs ==
    LET total_outputs == query_output_count
        spent == query_spent_outputs
    IN total_outputs - spent

threshold == 1000000000

query_high_value_tx_ge ==
    LET txs == list_path(s_tx)
        RECURSIVE loop(_, _)
        loop(k, count) ==
            IF k > Len(txs[1]) THEN count
            ELSE LET tx_json == content_at(txs[1][k])
                 IN IF tx_json = <<>> THEN loop(k + 1, count)
                    ELSE loop(k + 1, IF json_get_int64(tx_json[1], k_fee) >= threshold THEN count + 1 ELSE count)
    IN IF txs = <<>> THEN 0 ELSE loop(1, 0)

query_high_value_tx ==
    LET txs == list_path(s_tx)
        RECURSIVE loop(_, _)
        loop(k, count) ==
            IF k > Len(txs[1]) THEN count
            ELSE LET tx_json == content_at(txs[1][k])
                 IN IF tx_json = <<>> THEN loop(k + 1, count)
                    ELSE loop(k + 1, IF json_get_int64(tx_json[1], k_fee) > threshold THEN count + 1 ELSE count)
    IN IF txs = <<>> THEN 0 ELSE loop(1, 0)

multi_input_min == 10

query_multi_input_tx_ge ==
    LET txs == list_path(s_tx)
        RECURSIVE loop(_, _)
        loop(k, count) ==
            IF k > Len(txs[1]) THEN count
            ELSE LET tx_json == content_at(txs[1][k])
                 IN IF tx_json = <<>> THEN loop(k + 1, count)
                    ELSE LET tx_id == json_get_int(tx_json[1], k_tx_id)
                             inputs == list_path(PathOf(s_tx_inputs, tx_id))
                         IN IF inputs = <<>> THEN loop(k + 1, count)
                            ELSE loop(k + 1, IF Len(inputs[1]) >= multi_input_min
                                             THEN count + 1 ELSE count)
    IN IF txs = <<>> THEN 0 ELSE loop(1, 0)

query_multi_input_tx ==
    LET txs == list_path(s_tx)
        RECURSIVE loop(_, _)
        loop(k, count) ==
            IF k > Len(txs[1]) THEN count
            ELSE LET tx_json == content_at(txs[1][k])
                 IN IF tx_json = <<>> THEN loop(k + 1, count)
                    ELSE LET tx_id == json_get_int(tx_json[1], k_tx_id)
                             inputs == list_path(PathOf(s_tx_inputs, tx_id))
                         IN IF inputs = <<>> THEN loop(k + 1, count)
                            ELSE loop(k + 1, IF Len(inputs[1]) > multi_input_min
                                             THEN count + 1 ELSE count)
    IN IF txs = <<>> THEN 0 ELSE loop(1, 0)

(***************************************************************************)
(* Stores.  The content of a store comes from the ingestion side, which    *)
(* writes records as flat JSON objects under the paths of the data model.  *)
(***************************************************************************)
Leaf(path_str, data) == [path |-> SplitPath(path_str, 1, <<>>), data |-> data]

JsonField(key, n) == SearchFor(key) \o FormatInt(n)

RECURSIVE JoinFields(_)
JoinFields(fields) ==
    IF fields = <<>> THEN <<>>
    ELSE IF Len(fields) = 1 THEN fields[1]
    ELSE fields[1] \o <<",">> \o JoinFields(Tail(fields))

JsonObject(fields) == <<"{">> \o JoinFields(fields) \o <<"}">>

\* n leaves <dir>/0 .. <dir>/(n-1), each holding data
RECURSIVE Leaves(_, _, _)
Leaves(dir, n, data) ==
    IF n = 0 THEN <<>>
    ELSE Append(Leaves(dir, n - 1, data), Leaf(PathOf(dir, n - 1), data))

\* f(0) \o f(1) \o ... \o f(n-1) for f a function on 0..(n-1)
RECURSIVE Concat(_, _)
Concat(f, n) == IF n = 0 THEN <<>> ELSE Concat(f, n - 1) \o f[n - 1]

TxRecord(with_id, t, fee, locktime, version) ==
    JsonObject((IF with_id THEN <<JsonField(k_tx_id, t)>> ELSE <<>>) \o
               <<JsonField(k_fee, fee), JsonField(k_locktime, locktime),
                 JsonField(k_version, version)>>)

TxRef(t) == JsonObject(<<JsonField(k_tx_id, t)>>)

OutputRef(t, v) == JsonObject(<<JsonField(k_tx_id, t), JsonField(k_vout, v)>>)

OutputRecord(value) == JsonObject(<<JsonField(k_value, value)>>)

Present == JsonObject(<<>>)

\* The concrete scenario of the specification; with_id tells whether the
\* transaction records carry their tx_id field besides the three fields the
\* scenario lists.
ScenarioStore(with_id) ==
    Leaves(s_block, 2, Present) \o
    <<Leaf(PathOf(PathOf(s_block_txs, 0), 0), TxRef(0)),
      Leaf(PathOf(PathOf(s_block_txs, 1), 0), TxRef(1)),
      Leaf(PathOf(PathOf(s_block_txs, 1), 1), TxRef(2)),
      Leaf(PathOf(s_tx, 0), TxRecord(with_id, 0, 100, 0, 1)),
      Leaf(PathOf(s_tx, 1), TxRecord(with_id, 1, 2000000000, 5, 2)),
      Leaf(PathOf(s_tx, 2), TxRecord(with_id, 2, 50, 0, 1))>> \o
    Leaves(PathOf(s_tx_inputs, 1), 11, Present) \o
    <<Leaf(PathOf(PathOf(s_tx_outputs, 0), 0), OutputRef(0, 0)),
      Leaf(PathOf(PathOf(s_tx_outputs, 1), 0), OutputRef(1, 0)),
      Leaf(PathOf(PathOf(s_output, 0), 0), OutputRecord(1000)),
      Leaf(PathOf(PathOf(s_output, 1), 0), OutputRecord(500))>>

\* A partially populated store: a child of block whose trailing segment is
\* no number, a block-tx ref that holds no content, a block-tx ref and a
\* transaction record without tx_id, a transaction path that holds no record,
\* an output ref whose Output record is missing, and more spent_by entries
\* than outputs.
SparseStore ==
    <<Leaf(PathOf(s_block, 0), Present),
      Leaf(PathOf(s_block, 1), Present),
      Leaf(s_block \o <<"/", "2", "x">>, Present),
      Leaf(PathOf(PathOf(s_block_txs, 0), 0), TxRef(0)),
      Leaf(PathOf(PathOf(PathOf(s_block_txs, 1), 0), 0), TxRef(1)),
      Leaf(PathOf(PathOf(s_block_txs, 1), 1), Present),
      Leaf(PathOf(s_tx, 0), TxRecord(TRUE, 0, threshold + 1, 0, 1)),
      Leaf(PathOf(PathOf(s_tx, 1), 0), TxRecord(TRUE, 1, threshold + 1, 0, 1)),
      Leaf(PathOf(s_tx, 2), JsonObject(<<JsonField(k_fee, 7)>>))>> \o
    Leaves(PathOf(s_tx_inputs, 0), multi_input_min + 1, Present) \o
    <<Leaf(PathOf(PathOf(s_tx_outputs, 0), 0), OutputRef(0, 0)),
      Leaf(PathOf(PathOf(s_tx_outputs, 0), 1), OutputRef(0, 1)),
      Leaf(PathOf(PathOf(s_output, 0), 0), OutputRecord(40))>> \o
    Leaves(PathOf(s_spent_by, 0), 1, Present) \o
    Leaves(PathOf(s_spent_by, 3), 2, Present)

\* A store whose Output records all hold a negative value: one block, one
\* transaction with three output refs, the last of them without its record.
NegativeValueStore ==
    <<Leaf(PathOf(s_block, 0), Present),
      Leaf(PathOf(PathOf(s_block_txs, 0), 0), TxRef(0)),
      Leaf(PathOf(s_tx, 0), TxRecord(TRUE, 0, 50, 0, 1)),
      Leaf(PathOf(PathOf(s_tx_outputs, 0), 0), OutputRef(0, 0)),
      Leaf(PathOf(PathOf(s_tx_outputs, 0), 1), OutputRef(0, 1)),
      Leaf(PathOf(PathOf(s_tx_outputs, 0), 2), OutputRef(0, 2)),
      Leaf(PathOf(PathOf(s_output, 0), 0), OutputRecord(-5)),
      Leaf(PathOf(PathOf(s_output, 0), 1), OutputRecord(-3))>>

\* the decimal text of 2^32 + 1, a transaction id beyond the range of int
wide_tx_id == <<"4", "2", "9", "4", "9", "6", "7", "2", "9", "7">>

\* A store whose block-tx ref names the transaction 2^32 + 1: that
\* transaction has two inputs and one output of value 9; the transaction 1,
\* which no ref names, has one input and one output of value 4.
WideIdStore ==
    <<Leaf(PathOf(s_block, 0), Present),
      Leaf(PathOf(PathOf(s_block_txs, 0), 0),
           JsonObject(<<SearchFor(k_tx_id) \o wide_tx_id>>)),
      Leaf(PathOf(s_tx_inputs \o <<"/">> \o wide_tx_id, 0), Present),
      Leaf(PathOf(s_tx_inputs \o <<"/">> \o wide_tx_id, 1), Present),
      Leaf(PathOf(PathOf(s_tx_inputs, 1), 0), Present),
      Leaf(PathOf(s_tx_outputs \o <<"/">> \o wide_tx_id, 0),
           JsonObject(<<SearchFor(k_tx_id) \o wide_tx_id, JsonField(k_vout, 0)>>)),
      Leaf(PathOf(PathOf(s_tx_outputs, 1), 0), OutputRef(1, 0)),
      Leaf(PathOf(s_output \o <<"/">> \o wide_tx_id, 0), OutputRecord(9)),
      Leaf(PathOf(PathOf(s_output, 1), 0), OutputRecord(4))>>

MaxBlocks == 3

MaxTxs == 2

MaxSpent == 2

\* A family of stores: nb blocks and ntx transactions, transaction t in
\* block t % nb.  Transaction 0 has fee fee0 and in0 inputs, transaction 1
\* has fee threshold and multi_input_min inputs, the others fee 50 and one
\* input; every transaction has one output; nspent outputs of transaction 0
\* are marked spent.
FamilyStore(nb, ntx, fee0, in0, nspent, with_id) ==
    Leaves(s_block, nb, Present) \o
    Concat([t \in 0..(ntx - 1) |->
              <<Leaf(PathOf(s_tx, t),
                     TxRecord(with_id, t,
                              IF t = 0 THEN fee0 ELSE IF t = 1 THEN threshold ELSE 50,
                              t, 1 + t))>> \o
              (IF nb = 0 THEN <<>>
               ELSE <<Leaf(PathOf(PathOf(s_block_txs, t % nb), t), TxRef(t))>>) \o
              Leaves(PathOf(s_tx_inputs, t),
                     IF t = 0 THEN in0 ELSE IF t = 1 THEN multi_input_min ELSE 1,
                     Present) \o
              <<Leaf(PathOf(PathOf(s_tx_outputs, t), 0), OutputRef(t, 0)),
                Leaf(PathOf(PathOf(s_output, t), 0), OutputRecord(1000 - 300 * t))>>],
           ntx) \o
    Leaves(PathOf(s_spent_by, 0), nspent, Present)

Stores ==
    {ScenarioStore(b) : b \in BOOLEAN} \cup {SparseStore, NegativeValueStore, WideIdStore} \cup
    {FamilyStore(nb, ntx, fee0, in0, nspent, with_id) :
        nb \in 0..MaxBlocks, ntx \in 0..MaxTxs,
        fee0 \in {threshold, threshold + 1},
        in0 \in {multi_input_min, multi_input_min + 1},
        nspent \in 0..MaxSpent, with_id \in BOOLEAN}

(***************************************************************************)
(* Inputs of the single function calls                                     *)
(***************************************************************************)
MaxPieces == 4

MaxChildren == 3

Keys == {<<"a">>, <<"b">>}

\* a field name with its quotes and colon, and the characters such a piece
\* is made of, so that texts hold part of a "key": as well
Pieces ==
    {SearchFor(<<"a">>), SearchFor(<<"b">>), <<" ">>, <<"7">>, <<"3">>, <<"-">>,
     <<"\"">>, <<"a">>, <<":">>}

RECURSIVE TextsOf(_)
TextsOf(n) ==
    IF n = 0 THEN {<<>>}
    ELSE LET shorter == TextsOf(n - 1)
         IN shorter \cup {t \o q : t \in shorter, q \in Pieces}

\* trailing segments of the children of block: heights, and segments that
\* are no decimal number
Segments == {<<"0">>, <<"2">>, <<"1", "0">>, <<"7", "x">>, <<"x">>, <<"-", "5">>}

RECURSIVE ListingsOf(_)
ListingsOf(n) ==
    IF n = 0 THEN {<<>>}
    ELSE LET shorter == ListingsOf(n - 1)
         IN shorter \cup {Append(l, g) : l \in shorter, g \in Segments}

BlockStore(listing) ==
    [k \in 1..Len(listing) |-> [path |-> <<s_block, listing[k]>>, data |-> Present]]

BlockStores ==
    {BlockStore(l) : l \in {m \in ListingsOf(MaxChildren) :
                              \A j, k \in 1..Len(m) : j # k => m[j] # m[k]}}

(***************************************************************************)
(* The benchmark runner                                                    *)
(***************************************************************************)
\* benchmarks[]: the names, in the order of the table; the NULL entry that
\* ends the table is the position after the last one.
benchmarks_catalog_order ==
    <<"Block count", "Tx count", "Address count", "Input count", "Output count",
      "Tx locktime > 0", "Max output value", "Calculate fee", "Total output value",
      "Total fees", "Tx version > 1", "Avg tx per block", "Max tx per block",
      "Spent outputs", "Unspent outputs", "High value tx", "Multi-input tx">>

benchmarks ==
    <<"Block count", "Tx count", "Input count", "Output count", "Address count",
      "Tx locktime > 0", "Max output value", "Calculate fee", "Total output value",
      "Total fees", "Tx version > 1", "Avg tx per block", "Max tx per block",
      "Spent outputs", "Unspent outputs", "High value tx", "Multi-input tx">>

\* benchmarks[i].query(): the function the table holds beside each name
CallQuery(name) ==
    CASE name = "Block count" -> query_block_count
      [] name = "Tx count" -> query_tx_count
      [] name = "Input count" -> query_input_count
      [] name = "Output count" -> query_output_count
      [] name = "Address count" -> query_address_count
      [] name = "Tx locktime > 0" -> query_tx_locktime_gt_0
      [] name = "Max output value" -> query_max_output_value
      [] name = "Calculate fee" -> query_calculate_fee
      [] name = "Total output value" -> query_total_output_value
      [] name = "Total fees" -> query_total_fees
      [] name = "Tx version > 1" -> query_tx_version_gt_1
      [] name = "Avg tx per block" -> query_avg_tx_per_block
      [] name = "Max tx per block" -> query_max_tx_per_block
      [] name = "Spent outputs" -> query_spent_outputs
      [] name = "Unspent outputs" -> query_unspent_outputs
      [] name = "High value tx" -> query_high_value_tx
      [] name = "Multi-input tx" -> query_multi_input_tx

Handles == {"config", "repo", "store", "path", "contents", "string"}

NoHandles == [h \in Handles |-> 0]

\* the calls irmin_*_free, one for each handle kind of hs, in order
RECURSIVE Release(_, _)
Release(r, hs) ==
    IF hs = <<>> THEN r
    ELSE Release([r EXCEPT ![Head(hs)] = @ + 1], Tail(hs))

Acquire(a, h) == [a EXCEPT ![h] = @ + 1]

Header == "Query,Time_ms,Result"

\* return code from main, after writing msgs to stderr and freeing hs
Return(code, msgs, hs) ==
    /\ err' = err \o msgs
    /\ rel' = Release(rel, hs)
    /\ exitCode' = code
    /\ pc' = "exit"

fixed == <<store, nullOnAbsent, listOrder, prog, fn_json, fn_key, fn_ret>>

\* benchmark.c main: irmin_config_pack
ConfigPack ==
    /\ prog = "benchmark" /\ pc = "config_pack"
    /\ \/ /\ acq' = Acquire(acq, "config")
          /\ pc' = "set_root"
          /\ UNCHANGED <<rel, err, exitCode>>
       \/ /\ Return(1, <<"Error: Failed to create config">>, <<>>)
          /\ UNCHANGED acq
    /\ UNCHANGED <<fixed, i, out, ran>>

\* benchmark.c main: irmin_config_set_root
SetRoot ==
    /\ prog = "benchmark" /\ pc = "set_root"
    /\ \/ /\ pc' = "repo_new"
          /\ UNCHANGED <<rel, err, exitCode>>
       \/ Return(1, <<"Error: Failed to set root path">>, <<"config">>)
    /\ UNCHANGED <<fixed, i, acq, out, ran>>

\* benchmark.c main: irmin_repo_new
RepoNew ==
    /\ prog = "benchmark" /\ pc = "repo_new"
    /\ \/ /\ acq' = Acquire(acq, "repo")
          /\ pc' = "has_error"
          /\ UNCHANGED <<rel, err, exitCode>>
       \/ /\ Return(1, <<"Error: Failed to create repo">>, <<"config">>)
          /\ UNCHANGED acq
    /\ UNCHANGED <<fixed, i, out, ran>>

\* benchmark.c main: irmin_repo_has_error
RepoHasError_leak ==
    /\ prog = "benchmark" /\ pc = "has_error"
    /\ \/ /\ pc' = "irmin_main"
          /\ UNCHANGED <<acq, rel, err, exitCode>>
       \/ /\ acq' = Acquire(acq, "string")
          /\ Return(1, <<"Error: repo">>, <<"string", "repo">>)
    /\ UNCHANGED <<fixed, i, out, ran>>

RepoHasError ==
    /\ prog = "benchmark" /\ pc = "has_error"
    /\ \/ /\ pc' = "irmin_main"
          /\ UNCHANGED <<acq, rel, err, exitCode>>
       \/ /\ acq' = Acquire(acq, "string")
          /\ Return(1, <<"Error: repo">>, <<"string", "repo", "config">>)
    /\ UNCHANGED <<fixed, i, out, ran>>

\* benchmark.c main: irmin_main
IrminMain_fallthrough ==
    /\ prog = "benchmark" /\ pc = "irmin_main"
    /\ \/ /\ acq' = Acquire(acq, "store")
          /\ pc' = "header"
          /\ UNCHANGED <<rel, err, exitCode>>
       \/ /\ err' = Append(err, "Error: Failed to get main store")
          /\ pc' = "header"
          /\ UNCHANGED <<acq, rel, exitCode>>
    /\ UNCHANGED <<fixed, i, out, ran>>

IrminMain ==
    /\ prog = "benchmark" /\ pc = "irmin_main"
    /\ \/ /\ acq' = Acquire(acq, "store")
          /\ pc' = "header"
          /\ UNCHANGED <<rel, err, exitCode>>
       \/ /\ Return(1, <<"Error: Failed to get main store">>, <<"repo", "config">>)
          /\ UNCHANGED acq
    /\ UNCHANGED <<fixed, i, out, ran>>

\* benchmark.c main: the CSV header
PrintHeader ==
    /\ prog = "benchmark" /\ pc = "header"
    /\ out' = Append(out, Header)
    /\ i' = 0
    /\ pc' = "bench"
    /\ UNCHANGED <<fixed, acq, rel, err, ran, exitCode>>

\* benchmark.c main: one turn of the loop over benchmarks[]; the elapsed
\* time of the line is a measurement and is left out of it
RunBenchmark ==
    /\ prog = "benchmark" /\ pc = "bench"
    /\ \/ /\ i < Len(benchmarks)
          /\ LET name == benchmarks[i + 1]
                 result == CallQuery(name)
             IN /\ ran' = Append(ran, name)
                /\ out' = Append(out, [name |-> name, result |-> result])
          /\ i' = i + 1
          /\ pc' = "bench"
       \/ /\ i >= Len(benchmarks)
          /\ pc' = "cleanup"
          /\ UNCHANGED <<i, out, ran>>
    /\ UNCHANGED <<fixed, acq, rel, err, exitCode>>

\* benchmark.c main: cleanup and return 0
Cleanup ==
    /\ prog = "benchmark" /\ pc = "cleanup"
    /\ Return(0, <<>>, <<"store", "repo", "config">>)
    /\ UNCHANGED <<fixed, i, acq, out, ran>>

(***************************************************************************)
(* query_block.c main                                                      *)
(***************************************************************************)
QbConfigPack ==
    /\ prog = "query_block" /\ pc = "config_pack"
    /\ out' = out \o <<"=== irmin-blocksci C Query Example ===", "1. Creating pack store config...">>
    /\ \/ /\ acq' = Acquire(acq, "config")
          /\ pc' = "set_root"
          /\ UNCHANGED <<rel, err, exitCode>>
       \/ /\ Return(1, <<"Error: Failed to create config">>, <<>>)
          /\ UNCHANGED acq
    /\ UNCHANGED <<fixed, i, ran>>

QbSetRoot ==
    /\ prog = "query_block" /\ pc = "set_root"
    /\ out' = Append(out, "2. Setting store root to: %s")
    /\ \/ /\ pc' = "repo_new"
          /\ UNCHANGED <<rel, err, exitCode>>
       \/ Return(1, <<"Error: Failed to set root path">>, <<"config">>)
    /\ UNCHANGED <<fixed, i, acq, ran>>

QbRepoNew ==
    /\ prog = "query_block" /\ pc = "repo_new"
    /\ out' = Append(out, "3. Opening repository...")
    /\ \/ /\ acq' = Acquire(acq, "repo")
          /\ pc' = "has_error"
          /\ UNCHANGED <<rel, err, exitCode>>
       \/ /\ Return(1, <<"Error: Failed to create repo">>, <<"config">>)
          /\ UNCHANGED acq
    /\ UNCHANGED <<fixed, i, ran>>

QbRepoHasError ==
    /\ prog = "query_block" /\ pc = "has_error"
    /\ \/ /\ pc' = "irmin_main"
          /\ UNCHANGED <<acq, rel, err, exitCode>>
       \/ /\ acq' = Acquire(acq, "string")
          /\ Return(1, <<"Error: repo">>, <<"string", "repo", "config">>)
    /\ UNCHANGED <<fixed, i, out, ran>>

QbIrminMain ==
    /\ prog = "query_block" /\ pc = "irmin_main"
    /\ out' = Append(out, "4. Getting main branch...")
    /\ \/ /\ acq' = Acquire(acq, "store")
          /\ pc' = "path"
          /\ UNCHANGED <<rel, err, exitCode>>
       \/ /\ Return(1, <<"Error: Failed to get main store">>, <<"repo", "config">>)
          /\ UNCHANGED acq
    /\ UNCHANGED <<fixed, i, ran>>

QbPath ==
    /\ prog = "query_block" /\ pc = "path"
    /\ out' = Append(out, "5. Creating path for 'block/0'...")
    /\ \/ /\ acq' = Acquire(acq, "path")
          /\ pc' = "find"
          /\ UNCHANGED <<rel, err, exitCode>>
       \/ /\ Return(1, <<"Error: Failed to create path">>, <<"store", "repo", "config">>)
          /\ UNCHANGED acq
    /\ UNCHANGED <<fixed, i, ran>>

\* irmin_find of block/0, then irmin_contents_to_string, which may give NULL
QbFind ==
    /\ prog = "query_block" /\ pc = "find"
    /\ LET contents == irmin_find(SplitPath(PathOf(s_block, 0), 1, <<>>))
       IN \/ /\ contents = <<>>
             /\ out' = out \o <<"6. Looking up block 0...", "   Block 0 not found in store.">>
             /\ UNCHANGED <<acq, rel>>
          \/ /\ contents # <<>>
             /\ acq' = Acquire(Acquire(acq, "contents"), "string")
             /\ rel' = Release(rel, <<"string", "contents">>)
             /\ out' = out \o <<"6. Looking up block 0...", "=== Block 0 (Genesis Block) ===",
                                contents[1]>>
          \/ /\ contents # <<>>
             /\ acq' = Acquire(acq, "contents")
             /\ rel' = Release(rel, <<"contents">>)
             /\ out' = Append(out, "6. Looking up block 0...")
    /\ pc' = "cleanup"
    /\ UNCHANGED <<fixed, i, err, ran, exitCode>>

QbCleanup ==
    /\ prog = "query_block" /\ pc = "cleanup"
    /\ out' = out \o <<"7. Cleaning up...", "Done!">>
    /\ Return(0, <<>>, <<"path", "store", "repo", "config">>)
    /\ UNCHANGED <<fixed, i, acq, ran>>

Init ==
    /\ store \in Stores
    /\ nullOnAbsent \in BOOLEAN
    /\ listOrder = 0
    /\ prog \in {"benchmark", "query_block"}
    /\ pc = "config_pack"
    /\ i = 0
    /\ acq = NoHandles
    /\ rel = NoHandles
    /\ out = <<>>
    /\ err = <<>>
    /\ ran = <<>>
    /\ exitCode = -1
    /\ fn_json = <<>>
    /\ fn_key = <<>>
    /\ fn_ret = <<>>

Next ==
    \/ ConfigPack
    \/ SetRoot
    \/ RepoNew
    \/ RepoHasError
    \/ IrminMain
    \/ PrintHeader
    \/ RunBenchmark
    \/ Cleanup
    \/ QbConfigPack
    \/ QbSetRoot
    \/ QbRepoNew
    \/ QbRepoHasError
    \/ QbIrminMain
    \/ QbPath
    \/ QbFind
    \/ QbCleanup

Spec == Init /\ [][Next]_vars

(***************************************************************************)
(* Single calls of json_get_int64 and find_last_block_height               *)
(***************************************************************************)
CallJsonGetInt64 ==
    /\ prog = "fn" /\ pc = "call_json_get_int64"
    /\ fn_ret' = <<json_get_int64(fn_json, fn_key)>>
    /\ pc' = "returned_json_get_int64"
    /\ UNCHANGED <<store, nullOnAbsent, listOrder, prog, fn_json, fn_key, i, acq, rel, out, err, ran, exitCode>>

CallFindLastBlockHeight ==
    /\ prog = "fn" /\ pc = "call_find_last_block_height"
    /\ fn_ret' = <<find_last_block_height>>
    /\ pc' = "returned_find_last_block_height"
    /\ UNCHANGED <<store, nullOnAbsent, listOrder, prog, fn_json, fn_key, i, acq, rel, out, err, ran, exitCode>>

InitFn ==
    /\ prog = "fn"
    /\ \/ /\ pc = "call_json_get_int64"
          /\ fn_json \in TextsOf(MaxPieces)
          /\ fn_key \in Keys
          /\ store = <<>>
          /\ nullOnAbsent = FALSE
       \/ /\ pc = "call_find_last_block_height"
          /\ fn_json = <<>>
          /\ fn_key = <<>>
          /\ store \in BlockStores
          /\ nullOnAbsent \in BOOLEAN
    /\ listOrder = 0
    /\ i = 0
    /\ acq = NoHandles
    /\ rel = NoHandles
    /\ out = <<>>
    /\ err = <<>>
    /\ ran = <<>>
    /\ exitCode = -1
    /\ fn_ret = <<>>

NextFn ==
    \/ CallJsonGetInt64
    \/ CallFindLastBlockHeight

SpecFn == InitFn /\ [][NextFn]_vars

(***************************************************************************)
(* The queries called twice on one store content: as the listings are      *)
(* stored, then under another order of each listing                        *)
(***************************************************************************)
MaxOrders == 6

\* every benchmark query and find_last_block_height, called once
AllResults ==
    [name \in {benchmarks[k] : k \in 1..Len(benchmarks)} \cup {"find_last_block_height"} |->
        IF name = "find_last_block_height" THEN find_last_block_height
        ELSE CallQuery(name)]

CallAll ==
    /\ prog = "order"
    /\ pc \in {"call_all", "call_all_again"}
    /\ fn_ret' = Append(fn_ret, AllResults)
    /\ pc' = IF pc = "call_all" THEN "reorder" ELSE "returned_all"
    /\ UNCHANGED <<store, nullOnAbsent, listOrder, prog, fn_json, fn_key, i, acq, rel, out, err, ran, exitCode>>

\* the store returns its listings in another order from now on
Reorder ==
    /\ prog = "order"
    /\ pc = "reorder"
    /\ listOrder' \in 0..(MaxOrders - 1)
    /\ pc' = "call_all_again"
    /\ UNCHANGED <<store, nullOnAbsent, prog, fn_json, fn_key, fn_ret, i, acq, rel, out, err, ran, exitCode>>

InitOrder ==
    /\ prog = "order"
    /\ pc = "call_all"
    /\ store \in Stores \cup BlockStores
    /\ nullOnAbsent \in BOOLEAN
    /\ listOrder = 0
    /\ fn_json = <<>>
    /\ fn_key = <<>>
    /\ fn_ret = <<>>
    /\ i = 0
    /\ acq = NoHandles
    /\ rel = NoHandles
    /\ out = <<>>
    /\ err = <<>>
    /\ ran = <<>>
    /\ exitCode = -1

NextOrder ==
    \/ CallAll
    \/ Reorder

SpecOrder == InitOrder /\ [][NextOrder]_vars

(***************************************************************************)
(* What the properties speak of, stated on the store as a set of leaves    *)
(***************************************************************************)
ToPath(path_str) == SplitPath(path_str, 1, <<>>)

\* the children of a path: the distinct one-step extensions that lead to a leaf
ChildSet(path) ==
    {SubSeq(store[k].path, 1, Len(path) + 1) :
        k \in {j \in 1..Len(store) : IsUnder(path, store[j].path)}}

HasContent(path) == \E k \in 1..Len(store) : store[k].path = path

ContentOf(path) == store[CHOOSE k \in 1..Len(store) : store[k].path = path].data

RECURSIVE Pow10(_)
Pow10(n) == IF n = 0 THEN 1 ELSE 10 * Pow10(n - 1)

RECURSIVE DigitSum(_, _, _)
DigitSum(s, from, to) ==
    IF from > to THEN 0
    ELSE DigitVal(s[from]) * Pow10(to - from) + DigitSum(s, from + 1, to)

\* The signed decimal integer that starts at position p of s after white
\* space: the longest run of digits after an optional sign; 0 without digits.
DecimalAt(s, p) ==
    LET q == CHOOSE x \in p..(Len(s) + 1) :
                 /\ ~IsSpace(CharAt(s, x))
                 /\ \A j \in p..(x - 1) : IsSpace(CharAt(s, j))
        signed == CharAt(s, q) \in {"-", "+"}
        r == IF signed THEN q + 1 ELSE q
        e == CHOOSE x \in r..(Len(s) + 1) :
                 /\ ~IsDigit(CharAt(s, x))
                 /\ \A j \in r..(x - 1) : IsDigit(CharAt(s, j))
        m == DigitSum(s, r, e - 1)
    IN IF CharAt(s, q) = "-" THEN 0 - m ELSE m

Occurrences(json, key) ==
    {p \in 1..Len(json) : \A j \in 1..Len(SearchFor(key)) :
                              CharAt(json, p + j - 1) = SearchFor(key)[j]}

MinOf(S) == CHOOSE x \in S : \A y \in S : x <= y

MaxOf(S) == CHOOSE x \in S : \A y \in S : x >= y

\* the integer a record holds for key: the one after the first "key":, 0 without
FieldValue(json, key) ==
    LET occ == Occurrences(json, key)
    IN IF occ = {} THEN 0 ELSE DecimalAt(json, MinOf(occ) + Len(SearchFor(key)))

\* the integers decoded from the trailing segments of the children of block
BlockHeights == {DecimalAt(p[Len(p)], 1) : p \in ChildSet(<<s_block>>)}

\* a result line of the benchmark has been printed for this query
Printed(name) ==
    /\ prog = "benchmark"
    /\ \E k \in 2..Len(out) : out[k].name = name

ResultOf(name) == out[CHOOSE k \in 2..Len(out) : out[k].name = name].result

\* the transactions of listing tx that hold a record
TxRecords == {p \in ChildSet(<<s_tx>>) : HasContent(p)}

InputEntries(tx_id) == Cardinality(ChildSet(ToPath(PathOf(s_tx_inputs, tx_id))))

(***************************************************************************)
(* Properties                                                              *)
(***************************************************************************)
\* C1 (as stated): find_last_block_height returns the maximum of the
\* integers decoded from the trailing segments of the children of block, and
\* -1 when the listing of block is empty or absent.
C1_MaxOfDecodedHeights ==
    pc = "returned_find_last_block_height" =>
        fn_ret[1] = IF BlockHeights = {} THEN -1 ELSE MaxOf(BlockHeights)

\* C1 (amended): find_last_block_height returns the maximum of -1 and the
\* integers decoded from the trailing segments of the children of block; so
\* -1 when the listing is empty or absent, and also when every decoded
\* integer is negative.
C1_MaxOfDecodedHeightsAndMinusOne ==
    pc = "returned_find_last_block_height" =>
        fn_ret[1] = MaxOf(BlockHeights \cup {-1})

C1_Witness ==
    /\ pc = "returned_find_last_block_height"
    /\ Cardinality(ChildSet(<<s_block>>)) >= 2
    /\ \E h \in BlockHeights : h # fn_ret[1]
    /\ fn_ret[1] > 0

ScenarioExpected ==
    [n \in {"Block count", "Tx count", "Output count", "Max output value",
            "Total output value", "Total fees", "Calculate fee", "Tx locktime > 0",
            "Tx version > 1", "High value tx", "Multi-input tx", "Avg tx per block",
            "Max tx per block", "Spent outputs", "Unspent outputs"} |->
        CASE n = "Block count" -> 2
          [] n = "Tx count" -> 3
          [] n = "Output count" -> 2
          [] n = "Max output value" -> 1000
          [] n = "Total output value" -> 1500
          [] n = "Total fees" -> 2000000150
          [] n = "Calculate fee" -> 2000000000
          [] n = "Tx locktime > 0" -> 1
          [] n = "Tx version > 1" -> 1
          [] n = "High value tx" -> 1
          [] n = "Multi-input tx" -> 1
          [] n = "Avg tx per block" -> 1500
          [] n = "Max tx per block" -> 2
          [] n = "Spent outputs" -> 0
          [] n = "Unspent outputs" -> 2]

\* C2 (as stated): on the scenario store, whose transaction records hold
\* the fields fee, locktime and version, every metric returns the value the
\* scenario expects.
C2_ScenarioAsListed ==
    store = ScenarioStore(FALSE) =>
        \A n \in DOMAIN ScenarioExpected : Printed(n) => ResultOf(n) = ScenarioExpected[n]

\* C2 (amended): on the scenario store every metric but multi_input_tx
\* returns the expected value; multi_input_tx returns 0 when the transaction
\* records hold only the listed fields fee, locktime and version, and the
\* expected 1 when each record tx/n also holds its tx_id n.
C2_ScenarioResults ==
    \A with_id \in BOOLEAN :
        store = ScenarioStore(with_id) =>
            \A n \in DOMAIN ScenarioExpected :
                Printed(n) =>
                    ResultOf(n) = IF n = "Multi-input tx" /\ ~with_id THEN 0
                                  ELSE ScenarioExpected[n]

C2_Witness ==
    /\ store = ScenarioStore(FALSE)
    /\ prog = "benchmark"
    /\ exitCode = 0
    /\ Printed("Multi-input tx")

\* C3: unspent_outputs is output_count minus spent_outputs exactly, negative
\* when the spent_by index holds more entries than the output traversal
\* counts.
C3_UnspentIsDifference ==
    Printed("Unspent outputs") =>
        /\ ResultOf("Unspent outputs") = ResultOf("Output count") - ResultOf("Spent outputs")
        /\ ResultOf("Spent outputs") > ResultOf("Output count") => ResultOf("Unspent outputs") < 0

C3_Witness ==
    /\ Printed("Unspent outputs")
    /\ ResultOf("Spent outputs") > ResultOf("Output count")
    /\ ResultOf("Output count") > 0
    /\ ResultOf("Unspent outputs") < 0

\* C4: multi_input_tx counts exactly the transactions of listing tx whose
\* decoded tx_id has more than 10 entries under index/tx_inputs/{tx_id}.
C4_MultiInputStrictlyMoreThanTen ==
    Printed("Multi-input tx") =>
        ResultOf("Multi-input tx") =
            Cardinality({p \in TxRecords :
                            InputEntries(FieldValue(ContentOf(p), k_tx_id)) > 10})

C4_Witness ==
    /\ Printed("Multi-input tx")
    /\ ResultOf("Multi-input tx") = 1
    /\ \E p \in TxRecords : InputEntries(FieldValue(ContentOf(p), k_tx_id)) = 10
    /\ \E p \in TxRecords : InputEntries(FieldValue(ContentOf(p), k_tx_id)) = 11

\* C5: high_value_tx counts exactly the transactions of listing tx whose
\* decoded fee is greater than 1_000_000_000.
C5_HighValueStrictlyGreater ==
    Printed("High value tx") =>
        ResultOf("High value tx") =
            Cardinality({p \in TxRecords :
                            FieldValue(ContentOf(p), k_fee) > 1000000000})

C5_Witness ==
    /\ Printed("High value tx")
    /\ ResultOf("High value tx") = 1
    /\ \E p \in TxRecords : FieldValue(ContentOf(p), k_fee) = 1000000000
    /\ \E p \in TxRecords : FieldValue(ContentOf(p), k_fee) = 1000000001

\* C6: avg_tx_per_block is floor(tx_count * 1000 / block_count) when the
\* listing block is not empty, and 0 when it is.
C6_AvgTxPerBlock ==
    Printed("Avg tx per block") =>
        LET block_count == Cardinality(ChildSet(<<s_block>>))
            tx_count == Cardinality(ChildSet(<<s_tx>>))
        IN ResultOf("Avg tx per block") =
               IF block_count > 0
               THEN CHOOSE q \in 0..(tx_count * 1000) :
                        q * block_count <= tx_count * 1000 /\ tx_count * 1000 < (q + 1) * block_count
               ELSE 0

C6_Witness ==
    /\ Printed("Avg tx per block")
    /\ Cardinality(ChildSet(<<s_block>>)) = 3
    /\ Cardinality(ChildSet(<<s_tx>>)) = 2
    /\ ResultOf("Avg tx per block") = 666

\* C7: json_get_int64 returns 0 for a record without the sequence "key":
\* and otherwise the integer parsed after the first occurrence of it.
C7_MissingFieldIsZero ==
    pc = "returned_json_get_int64" =>
        LET occ == Occurrences(fn_json, fn_key)
        IN /\ occ = {} => fn_ret[1] = 0
           /\ occ # {} => fn_ret[1] = DecimalAt(fn_json, MinOf(occ) + Len(SearchFor(fn_key)))

C7_Witness ==
    /\ pc = "returned_json_get_int64"
    /\ Cardinality(Occurrences(fn_json, fn_key)) = 2
    /\ fn_ret[1] = 73
    /\ DecimalAt(fn_json, MaxOf(Occurrences(fn_json, fn_key)) + Len(SearchFor(fn_key))) = 0

\* C8: a run of the benchmark that fails to open the store or to obtain the
\* main branch writes a diagnostic to stderr and returns 1, and has run no
\* query and printed no line; no query runs and nothing is printed before
\* the main branch is obtained.
C8_FailureExitsBeforeAnyQuery ==
    prog = "benchmark" =>
        /\ (pc = "exit" /\ acq["store"] = 0) =>
               exitCode = 1 /\ Len(err) = 1 /\ ran = <<>> /\ out = <<>>
        /\ exitCode = 1 => (ran = <<>> /\ out = <<>> /\ err # <<>>)
        /\ (ran # <<>> \/ out # <<>>) => (acq["store"] = 1 /\ err = <<>>)

C8_Witness ==
    /\ prog = "benchmark"
    /\ exitCode = 1
    /\ acq["repo"] = 1
    /\ acq["store"] = 0
    /\ err = <<"Error: Failed to get main store">>

\* C9: when main returns, on every path, each native handle acquired in the
\* run has been released exactly once; no handle is released that is not
\* live.
C9_HandlesReleasedOnEveryExit ==
    /\ \A h \in Handles : rel[h] <= acq[h] /\ acq[h] <= 1
    /\ pc = "exit" => \A h \in Handles : rel[h] = acq[h]

C9_Witness ==
    /\ prog = "benchmark"
    /\ pc = "exit"
    /\ exitCode = 1
    /\ acq["repo"] = 1
    /\ acq["string"] = 1
    /\ rel["config"] = 1

\* the metrics in the order of the catalog of the specification, under the
\* names the benchmark prints
CatalogOrder ==
    <<"Block count", "Tx count", "Address count", "Input count", "Output count",
      "Tx locktime > 0", "Tx version > 1", "Max output value", "Calculate fee",
      "Total output value", "Total fees", "Avg tx per block", "Max tx per block",
      "Spent outputs", "Unspent outputs", "High value tx", "Multi-input tx">>

\* the metrics in the order of the table benchmarks[]
TableOrder ==
    <<"Block count", "Tx count", "Input count", "Output count", "Address count",
      "Tx locktime > 0", "Max output value", "Calculate fee", "Total output value",
      "Total fees", "Tx version > 1", "Avg tx per block", "Max tx per block",
      "Spent outputs", "Unspent outputs", "High value tx", "Multi-input tx">>

\* the output is the header line and then one line for each metric of order
LinesFollow(order) ==
    /\ Len(out) = 1 + Len(order)
    /\ out[1] = Header
    /\ \A k \in 1..Len(order) : out[k + 1].name = order[k]

\* C10 (as stated): a successful run prints the header, then exactly 17
\* result lines, one for each metric, in the order of the catalog of the
\* specification, and returns 0.
C10_LinesInCatalogOrder ==
    (prog = "benchmark" /\ pc = "exit" /\ acq["store"] = 1) =>
        exitCode = 0 /\ Len(CatalogOrder) = 17 /\ LinesFollow(CatalogOrder)

\* C10 (amended): a successful run prints the header, then exactly 17
\* result lines, one for each metric, in the order of the table benchmarks[]
\* (Block count, Tx count, Input count, Output count, Address count,
\* Tx locktime > 0, Max output value, Calculate fee, Total output value,
\* Total fees, Tx version > 1, Avg tx per block, Max tx per block,
\* Spent outputs, Unspent outputs, High value tx, Multi-input tx), and
\* returns 0; before that the lines printed are a prefix of this output.
C10_LinesInTableOrder ==
    prog = "benchmark" =>
        /\ (pc = "exit" /\ acq["store"] = 1) =>
               exitCode = 0 /\ Len(TableOrder) = 17 /\ LinesFollow(TableOrder)
        /\ \A k \in 2..Len(out) : k - 1 <= Len(TableOrder) /\ out[k].name = TableOrder[k - 1]
        /\ {TableOrder[k] : k \in 1..Len(TableOrder)} = {CatalogOrder[k] : k \in 1..Len(CatalogOrder)}

C10_Witness ==
    /\ prog = "benchmark"
    /\ exitCode = 0
    /\ Len(out) = 18
    /\ out[4].name = "Input count"

\* the sum of the values of a function with a finite domain
RECURSIVE SumOf(_)
SumOf(f) ==
    IF DOMAIN f = {} THEN 0
    ELSE LET x == CHOOSE y \in DOMAIN f : TRUE
         IN f[x] + SumOf([y \in DOMAIN f \ {x} |-> f[y]])

\* the last height of the traversals: the greatest decoded height, -1 at least
LastHeight == MaxOf(BlockHeights \cup {-1})

\* the block-tx refs the traversals reach that hold content: the children
\* of index/block_txs/{height}, for the heights 0..LastHeight
ReachedTxRefs ==
    UNION {{p \in ChildSet(ToPath(PathOf(s_block_txs, h))) : HasContent(p)} :
              h \in 0..LastHeight}

\* the transaction a block-tx ref names, as the traversals decode it
RefTxId(p) == json_get_int(ContentOf(p), k_tx_id)

\* the statements the benchmark still has to run: the header, one turn of
\* the loop for each metric left and the turn that leaves it, the cleanup
StepsLeft ==
    CASE pc = "header" -> Len(benchmarks) + 3
      [] pc = "bench" -> Len(benchmarks) + 2 - i
      [] pc = "cleanup" -> 1
      [] OTHER -> 0

\* C11: once the store and the main branch are opened the run never fails
\* and goes on to its exit: it is at the header, in the loop over the 17
\* metrics, at the cleanup or at the exit, every step brings the exit
\* nearer, every metric that has run has returned an integer, and the run
\* exits with 0 after all 17 metrics; an absent listing, an absent record
\* or a missing field only contributes an empty listing, a 0 field value or
\* a skipped step, so input_count is the number of entries under
\* index/tx_inputs/{tx_id} summed over the block-tx refs that hold content,
\* a ref without content or without listing adding none.
C11_MissingItemsAbsorbed ==
    /\ [](  (prog = "benchmark" /\ acq["store"] = 1) =>
               /\ pc \in {"header", "bench", "cleanup", "exit"}
               /\ pc = "bench" => i <= Len(benchmarks)
               /\ exitCode \in {-1, 0}
               /\ err = <<>>
               /\ pc = "exit" => (exitCode = 0 /\ Len(ran) = 17 /\ Len(out) = 18)
               /\ \A k \in 2..Len(out) : out[k].result \in Int
               /\ Printed("Input count") =>
                      ResultOf("Input count") =
                          SumOf([p \in ReachedTxRefs |-> InputEntries(RefTxId(p))]))
    /\ [][(prog = "benchmark" /\ acq["store"] = 1) =>
              (StepsLeft' < StepsLeft /\ StepsLeft' >= 0)]_vars

C11_Witness ==
    /\ prog = "benchmark"
    /\ pc = "exit"
    /\ exitCode = 0
    /\ Len(ran) = 17
    /\ \E h \in 0..LastHeight :
           \E p \in ChildSet(ToPath(PathOf(s_block_txs, h))) : ~HasContent(p)
    /\ \E p \in ReachedTxRefs : Occurrences(ContentOf(p), k_tx_id) = {}
    /\ \E h \in 0..LastHeight : ChildSet(ToPath(PathOf(s_block_txs, h))) = {}
    /\ ResultOf("Input count") = 22

\* the output refs the traversals reach that hold content: the children of
\* index/tx_outputs/{tx_id} for the transactions the block-tx refs name
ReachedOutputRefs ==
    UNION {{r \in ChildSet(ToPath(PathOf(s_tx_outputs, RefTxId(p)))) : HasContent(r)} :
              p \in ReachedTxRefs}

\* the path output/{tx_id}/{vout} an output ref names
OutputOfRef(r) ==
    ToPath(PathOf(PathOf(s_output, RefTxId(r)), json_get_int(ContentOf(r), k_vout)))

\* the Output records the traversals reach
ReachedOutputs == {o \in {OutputOfRef(r) : r \in ReachedOutputRefs} : HasContent(o)}

ReachedOutputValues == {FieldValue(ContentOf(o), k_value) : o \in ReachedOutputs}

\* C12 (as stated): max_output_value returns the maximum value field over
\* the Output records the traversal reaches, also when every such value is
\* negative, and 0 only when it reaches no Output record; an output ref
\* whose record is missing takes no part in the maximum.
C12_MaxOverReachedOutputs ==
    Printed("Max output value") =>
        /\ ReachedOutputs # {} =>
               ResultOf("Max output value") = MaxOf(ReachedOutputValues)
        /\ ReachedOutputs = {} => ResultOf("Max output value") = 0

\* The decimal text of the signed integer that starts at position p of s
\* after white space: the sign if negative, then the digits without leading
\* zeros; "0" without digits.
DecimalText(s, p) ==
    LET q == CHOOSE x \in p..(Len(s) + 1) :
                 /\ ~IsSpace(CharAt(s, x))
                 /\ \A j \in p..(x - 1) : IsSpace(CharAt(s, j))
        signed == CharAt(s, q) \in {"-", "+"}
        r == IF signed THEN q + 1 ELSE q
        e == CHOOSE x \in r..(Len(s) + 1) :
                 /\ ~IsDigit(CharAt(s, x))
                 /\ \A j \in r..(x - 1) : IsDigit(CharAt(s, j))
        z == CHOOSE x \in r..e :
                 /\ x = e \/ CharAt(s, x) # "0"
                 /\ \A j \in r..(x - 1) : CharAt(s, j) = "0"
    IN IF z = e THEN <<"0">>
       ELSE (IF CharAt(s, q) = "-" THEN <<"-">> ELSE <<>>) \o SubSeq(s, z, e - 1)

\* the decimal text of the integer a record holds for key, at its full width
FieldText(json, key) ==
    LET occ == Occurrences(json, key)
    IN IF occ = {} THEN <<"0">>
       ELSE DecimalText(json, MinOf(occ) + Len(SearchFor(key)))

\* the entries under index/tx_inputs/{tx_id} for the tx_id a ref holds
InputEntriesOfRef(p) ==
    Cardinality(ChildSet(ToPath(s_tx_inputs \o <<"/">> \o FieldText(ContentOf(p), k_tx_id))))

\* C13 (as stated): reference resolution keeps the full 64-bit range: the
\* follow-up path index/tx_inputs/{tx_id} is built from exactly the value
\* of the tx_id field of the block-tx ref, also at or above 2^31, and a ref
\* path without content is skipped; so input_count is the number of entries
\* under index/tx_inputs/{tx_id} summed over the block-tx refs that hold
\* content, for the tx_id each ref holds.
C13_FollowUpPathKeepsFullWidth ==
    Printed("Input count") =>
        ResultOf("Input count") = SumOf([p \in ReachedTxRefs |-> InputEntriesOfRef(p)])

\* C14: for a fixed store content every metric and find_last_block_height
\* return the same result whatever the order in which each list call
\* returns its child paths: the results of the calls made under another
\* order are those of the calls made on the listings as stored.
C14_ListingOrderAffectsNoResult ==
    prog = "order" => \A j, k \in 1..Len(fn_ret) : fn_ret[j] = fn_ret[k]

C14_Witness ==
    /\ prog = "order"
    /\ pc = "returned_all"
    /\ Len(fn_ret) = 2
    /\ list_path(s_block) # <<>>
    /\ Len(list_path(s_block)[1]) = 3
    /\ list_path(s_block)[1] # Children(<<s_block>>, 1, <<>>)
    /\ list_path(s_tx) # <<>>
    /\ list_path(s_tx)[1] # Children(<<s_tx>>, 1, <<>>)
    /\ fn_ret[2]["find_last_block_height"] = 2
    /\ fn_ret[2]["Input count"] > 0
    /\ fn_ret[2]["Max tx per block"] > 0

====
